---- MODULE Spec2Model ----
(***************************************************************************)
(* The research workflow of the multi-agent research assistant.  The       *)
(* repository holds the pipeline twice: src/agents.py (command line) and   *)
(* src/main.py (Gradio front end).  `variant` says which of the two files  *)
(* the modelled process runs.                                              *)
(***************************************************************************)
EXTENDS Integers, Sequences, FiniteSets, TLC

VARIABLES
    variant,    \* "agents" (src/agents.py) or "main" (src/main.py)
    env_key,    \* value of os.getenv("SERPER_API_KEY"); NoValue when unset
    argv,       \* sys.argv of the process
    pc,         \* position of the process
    exit_code,  \* status passed to sys.exit, NoExit while none
    question,   \* argument of the current run_research_workflow call
    state,      \* the ResearchState held by the graph execution in progress
    node,       \* the graph node the engine runs next; "END" when finished
    calls,      \* node -> invocations within the current run_research_workflow call
    failed,     \* stage names whose except clause ran within the current call, in order
    last,       \* the node that ran last, what it sent to its collaborator and the
                \* response it received
    result,     \* the dict returned by run_research_workflow, NoResult before
    runs        \* the run_research_workflow calls of concurrent callers, each with the
                \* locals of its call; empty while the process serves one caller

vars == <<variant, env_key, argv, pc, exit_code, question, state, node, calls,
          failed, last, result, runs>>

----------------------------------------------------------------------------
(* Bounds of the model *)

\* longest list of queries a completion response carries
MaxGen == 6
\* longest list of follow-up questions a completion response carries
MaxFollow == 4
\* length of a non-empty organic result list of the search service
MaxOrganic == 2
\* cap on the invocations of one node within one run_research_workflow call
MaxCalls == 3

(* Program constants *)

\* queries[:3]
QueryLimit == 3
\* questions[:2]
FollowUpLimit == 2
\* SerperSearchTool(k=10) in agents.py
K_agents == 10
\* SerperSearchTool(k=5) in main.py
K_main == 5
\* "3-5 diverse, precise web-search queries" in the prompt of agents.py
PromptMaxQueries == 5
\* "2-3 thoughtful follow-up questions" in the prompt of agents.py
PromptMaxFollowUps == 3

----------------------------------------------------------------------------
(* Values *)

NoValue == "<None>"
NoExit == -1
NoResult == [none |-> TRUE]
NoLast == [stage |-> "<none>"]

Variants == {"agents", "main"}
Stages == {"query_analyser", "search_executor", "content_synthesiser",
           "follow_up_generator"}
Nodes == Stages \cup {"error"}

Min(a, b) == IF a < b THEN a ELSE b

\* Python's s[:n] for n >= 0
Take(s, n) == SubSeq(s, 1, Min(n, Len(s)))

\* Python's s[n:] for n >= 0
Drop(s, n) == SubSeq(s, n + 1, Len(s))

\* Python's " ".join(words)
RECURSIVE Join(_)
Join(words) ==
    IF Len(words) = 0 THEN ""
    ELSE IF Len(words) = 1 THEN words[1]
    ELSE words[1] \o " " \o Join(Tail(words))

\* Python's s.strip() for a string of the model (blanks only)
RECURSIVE Strip(_)
Strip(s) ==
    IF Len(s) = 0 THEN s
    ELSE IF SubSeq(s, 1, 1) = " " THEN Strip(SubSeq(s, 2, Len(s)))
    ELSE IF SubSeq(s, Len(s), Len(s)) = " " THEN Strip(SubSeq(s, 1, Len(s) - 1))
    ELSE s

\* dict.get(key): None when the key is absent
Get(d, key) == IF key \in DOMAIN d THEN d[key] ELSE NoValue

----------------------------------------------------------------------------
(* CompletionService: what LLM.invoke(msg) does.  It raises (transport     *)
(* failure) or returns a text.  A text is modelled by the JSON document it *)
(* holds; json = FALSE is a text that is no JSON document.                 *)

QueryText(i) == "query " \o ToString(i)
QuestionText(i) == "follow-up " \o ToString(i)

SearchQueryItem(i) == [query |-> QueryText(i), rationale |-> "why " \o ToString(i)]
FollowUpItem(i) == [question |-> QuestionText(i), rationale |-> "why " \o ToString(i)]

Summaries == {"", "Photosynthesis converts light to chemical energy."}

NotJson == [json |-> FALSE]
QueriesDoc(n) == [json |-> TRUE, queries |-> [i \in 1..n |-> SearchQueryItem(i)]]
\* the queries of QueriesDoc(n) in reverse order
QueriesDocRev(n) == [json |-> TRUE, queries |-> [i \in 1..n |-> SearchQueryItem(n + 1 - i)]]
\* a queries document whose last item lacks the required field rationale
QueriesDocBad(n) ==
    [json |-> TRUE,
     queries |-> [i \in 1..n |-> IF i = n THEN [query |-> QueryText(i)]
                                  ELSE SearchQueryItem(i)]]
SummaryDoc(s) ==
    [json |-> TRUE, summary |-> s, key_insights |-> <<"insight">>,
     sources_consulted |-> <<"https://example.org">>]
\* a summary document without the required field key_insights
SummaryDocBad(s) == [json |-> TRUE, summary |-> s]
QuestionsDoc(n) == [json |-> TRUE, questions |-> [i \in 1..n |-> FollowUpItem(i)]]

\* the texts a completion call of the given stage may return: documents of the
\* schema it asked for, of another schema, with a field missing, and no JSON at all
CompletionTexts(stage) ==
    CASE stage = "query_analyser" ->
             {NotJson, QueriesDocBad(2), QueriesDocRev(2), SummaryDoc("")}
             \cup {QueriesDoc(n) : n \in 0..MaxGen}
      [] stage = "content_synthesiser" ->
             {NotJson, SummaryDocBad("partial"), QueriesDoc(1)}
             \cup {SummaryDoc(s) : s \in Summaries}
      [] stage = "follow_up_generator" ->
             {NotJson, QueriesDoc(1), SummaryDoc("")}
             \cup {QuestionsDoc(n) : n \in 0..MaxFollow}

TransportErrors == {"Connection error."}

\* every outcome of the LLM.invoke call of a stage
CompletionOutcomes(stage) ==
    {[kind |-> "raise", detail |-> e] : e \in TransportErrors}
    \cup {[kind |-> "text", text |-> t] : t \in CompletionTexts(stage)}

(* PydanticOutputParser.parse: the object, or OutputParserException *)

ParseError(schema) == [ok |-> FALSE, detail |-> "Failed to parse " \o schema]

\* parser of SearchQueries: queries: List[SearchQuery{query, rationale}]
ParseSearchQueries(text) ==
    IF /\ text.json
       /\ "queries" \in DOMAIN text
       /\ \A i \in 1..Len(text.queries) :
              {"query", "rationale"} \subseteq DOMAIN text.queries[i]
    THEN [ok |-> TRUE, queries |-> text.queries]
    ELSE ParseError("SearchQueries")

\* parser of ResearchSummary: summary, key_insights, sources_consulted
ParseResearchSummary(text) ==
    IF /\ text.json
       /\ {"summary", "key_insights", "sources_consulted"} \subseteq DOMAIN text
    THEN [ok |-> TRUE, summary |-> text.summary]
    ELSE ParseError("ResearchSummary")

\* parser of FollowUpQuestions: questions: List[FollowUpQuestion{question, rationale}]
ParseFollowUpQuestions(text) ==
    IF /\ text.json
       /\ "questions" \in DOMAIN text
       /\ \A i \in 1..Len(text.questions) :
              {"question", "rationale"} \subseteq DOMAIN text.questions[i]
    THEN [ok |-> TRUE, questions |-> text.questions]
    ELSE ParseError("FollowUpQuestions")

----------------------------------------------------------------------------
(* SearchService: SerperSearchTool *)

\* the credential check of SerperSearchTool.__init__: TRUE when it raises ValueError
\* a constructor that raises only when the variable is unset: if key is None
SerperInitRaises_unset_only(key) == key = NoValue

SerperInitRaises(key) == key = NoValue \/ key = ""

\* the k of the module-level search_tool
SearchK(v) == IF v = "main" THEN K_main ELSE K_agents

\* an item of the "organic" list of the service's answer to query q; every
\* second one comes without a snippet
OrganicItem(q, j) ==
    IF j % 2 = 1
    THEN [title |-> "title " \o ToString(j) \o " of " \o q,
          link |-> "https://example.org/" \o ToString(j),
          snippet |-> "snippet " \o ToString(j)]
    ELSE [title |-> "title " \o ToString(j) \o " of " \o q,
          link |-> "https://example.org/" \o ToString(j)]

\* the HTTP exchanges of one call that end in an exception
HttpFailures ==
    {[kind |-> "raise", detail |-> e] :
        e \in {"403 Client Error: Forbidden"}}

\* the HTTP exchanges of one call for query q that return JSON data
HttpAnswers(q) ==
    {[kind |-> "data", data |-> [credits |-> 1]],
     [kind |-> "data",
      data |-> [credits |-> 1, organic |-> [j \in 1..MaxOrganic |-> OrganicItem(q, j)]]]}

\* SerperSearchTool.invoke after a successful exchange: the result list
SerperResults(k, data) ==
    LET organic == IF "organic" \in DOMAIN data THEN data.organic ELSE <<>>
        items == Take(organic, k)
    IN  [j \in 1..Len(items) |->
            [title |-> Get(items[j], "title"),
             url |-> Get(items[j], "link"),
             content |-> Get(items[j], "snippet")]]

\* SerperSearchTool.invoke: [ok, results] or [ok = FALSE, detail] when it raises
SerperInvoke(k, http) ==
    IF http.kind = "raise" THEN [ok |-> FALSE, detail |-> http.detail]
    ELSE [ok |-> TRUE, results |-> SerperResults(k, http.data)]

----------------------------------------------------------------------------
(* ResearchState and the stage functions *)

\* initial_state of run_research_workflow
InitialState(q) ==
    [user_query |-> q,
     search_queries |-> <<>>,
     search_results |-> <<>>,
     research_summary |-> "",
     follow_up_questions |-> <<>>,
     current_step |-> "query_analyser",
     errors |-> <<>>]

\* f"{stage}: {e}"
ErrorEntry(stage, e) == stage \o ": " \o e

\* the except clause building its return value without **state: only the fields it
\* names are carried over, user_query falls back to empty
StageError_drops_query(st, stage, e) ==
    [st EXCEPT !.user_query = "",
               !.errors = Append(st.errors, ErrorEntry(stage, e)),
               !.current_step = "error"]

\* the except clause appending its entry twice
StageError_twice(st, stage, e) ==
    [st EXCEPT !.errors = Append(Append(st.errors, ErrorEntry(stage, e)),
                                 ErrorEntry(stage, e)),
               !.current_step = "error"]

\* the except clause without its entry in errors
StageError_silent(st, stage, e) == [st EXCEPT !.current_step = "error"]

\* the except clause without its update of current_step
StageError_keeps_step(st, stage, e) ==
    [st EXCEPT !.errors = Append(st.errors, ErrorEntry(stage, e))]

\* the except clause of a stage:
\* {**state, "errors": state.get("errors", []) + [f"<stage>: {e}"], "current_step": "error"}
StageError(st, stage, e) ==
    [st EXCEPT !.errors = Append(st.errors, ErrorEntry(stage, e)),
               !.current_step = "error"]

\* the slice query_analyser applies to the parsed queries: [:3] in main.py, none in agents.py
SliceQueries(v, queries) == IF v = "main" THEN Take(queries, QueryLimit) ELSE queries

\* the slice follow_up_generator applies to the parsed questions: [:2] in main.py,
\* none in agents.py
SliceQuestions(v, questions) ==
    IF v = "main" THEN Take(questions, FollowUpLimit) ELSE questions

\* the try block of query_analyser with a check that at least QueryLimit queries came
query_analyser_try_min(v, st, out) ==
    IF out.kind = "raise" THEN [ok |-> FALSE, detail |-> out.detail]
    ELSE LET parsed == ParseSearchQueries(out.text) IN
         IF ~parsed.ok THEN [ok |-> FALSE, detail |-> parsed.detail]
         ELSE IF Len(parsed.queries) < QueryLimit
              THEN [ok |-> FALSE, detail |-> "too few queries"]
         ELSE LET queries == SliceQueries(v, parsed.queries) IN
              [ok |-> TRUE,
               state |-> [st EXCEPT
                   !.search_queries = [i \in 1..Len(queries) |-> queries[i].query],
                   !.current_step = "search_executor"]]

\* the try block of query_analyser, given the outcome of its LLM.invoke call: the
\* state it returns, or the exception raised in it
query_analyser_try(v, st, out) ==
    IF out.kind = "raise" THEN [ok |-> FALSE, detail |-> out.detail]
    ELSE LET parsed == ParseSearchQueries(out.text) IN
         IF ~parsed.ok THEN [ok |-> FALSE, detail |-> parsed.detail]
         ELSE LET queries == SliceQueries(v, parsed.queries) IN
              [ok |-> TRUE,
               state |-> [st EXCEPT
                   !.search_queries = [i \in 1..Len(queries) |-> queries[i].query],
                   !.current_step = "search_executor"]]

\* query_analyser(state)
query_analyser(v, st, out) ==
    LET t == query_analyser_try(v, st, out) IN
    IF t.ok THEN t.state ELSE StageError(st, "query_analyser", t.detail)

\* the loop of search_executor with results.extend applied the wrong way round: the
\* results of each call are put before those collected so far
RECURSIVE SearchLoop_prepends(_, _, _, _, _)
SearchLoop_prepends(k, queries, https, i, results) ==
    IF i > Len(queries) THEN [ok |-> TRUE, results |-> results]
    ELSE LET r == SerperInvoke(k, https[i]) IN
         IF ~r.ok THEN [ok |-> FALSE, detail |-> r.detail]
         ELSE SearchLoop_prepends(k, queries, https, i + 1, r.results \o results)

\* the loop of search_executor from query i on, given the HTTP exchange of every
\* call it gets to make: the collected results, or the first exception
RECURSIVE SearchLoop(_, _, _, _, _)
SearchLoop(k, queries, https, i, results) ==
    IF i > Len(queries) THEN [ok |-> TRUE, results |-> results]
    ELSE LET r == SerperInvoke(k, https[i]) IN
         IF ~r.ok THEN [ok |-> FALSE, detail |-> r.detail]
         ELSE SearchLoop(k, queries, https, i + 1, results \o r.results)

\* a try block that raises when search_queries is empty
search_executor_try_requires_queries(v, st, https) ==
    LET r == SearchLoop(SearchK(v), st.search_queries, https, 1, <<>>) IN
    IF st.search_queries = <<>> THEN [ok |-> FALSE, detail |-> "no search queries"]
    ELSE IF ~r.ok THEN [ok |-> FALSE, detail |-> r.detail]
    ELSE [ok |-> TRUE,
          state |-> [st EXCEPT !.search_results = r.results,
                               !.current_step = "content_synthesiser"]]

\* a try block that raises when the calls returned no result at all
search_executor_try_requires_results(v, st, https) ==
    LET r == SearchLoop(SearchK(v), st.search_queries, https, 1, <<>>) IN
    IF ~r.ok THEN [ok |-> FALSE, detail |-> r.detail]
    ELSE IF r.results = <<>> THEN [ok |-> FALSE, detail |-> "no search results"]
    ELSE [ok |-> TRUE,
          state |-> [st EXCEPT !.search_results = r.results,
                               !.current_step = "content_synthesiser"]]

\* the try block of search_executor, given the HTTP exchanges of its
\* search_tool.invoke calls
search_executor_try(v, st, https) ==
    LET r == SearchLoop(SearchK(v), st.search_queries, https, 1, <<>>) IN
    IF ~r.ok THEN [ok |-> FALSE, detail |-> r.detail]
    ELSE [ok |-> TRUE,
          state |-> [st EXCEPT !.search_results = r.results,
                               !.current_step = "content_synthesiser"]]

\* the results of the calls answered before the first one that raises
RECURSIVE PartialResults(_, _, _)
PartialResults(k, https, i) ==
    IF i > Len(https) THEN <<>>
    ELSE LET r == SerperInvoke(k, https[i]) IN
         IF ~r.ok THEN <<>> ELSE r.results \o PartialResults(k, https, i + 1)

\* search_executor whose except clause stores the results collected before the failure
search_executor_keeps_partial(v, st, https) ==
    LET t == search_executor_try(v, st, https) IN
    IF t.ok THEN t.state
    ELSE StageError([st EXCEPT !.search_results = PartialResults(SearchK(v), https, 1)],
                    "search_executor", t.detail)

\* search_executor(state)
search_executor(v, st, https) ==
    LET t == search_executor_try(v, st, https) IN
    IF t.ok THEN t.state ELSE StageError(st, "search_executor", t.detail)

\* the try block of content_synthesiser, given the outcome of its LLM.invoke call
content_synthesiser_try(v, st, out) ==
    IF out.kind = "raise" THEN [ok |-> FALSE, detail |-> out.detail]
    ELSE LET parsed == ParseResearchSummary(out.text) IN
         IF ~parsed.ok THEN [ok |-> FALSE, detail |-> parsed.detail]
         ELSE [ok |-> TRUE,
               state |-> [st EXCEPT !.research_summary = parsed.summary,
                                    !.current_step = "follow_up_generator"]]

\* content_synthesiser(state)
content_synthesiser(v, st, out) ==
    LET t == content_synthesiser_try(v, st, out) IN
    IF t.ok THEN t.state ELSE StageError(st, "content_synthesiser", t.detail)

\* the try block of follow_up_generator, given the outcome of its LLM.invoke call
follow_up_generator_try(v, st, out) ==
    IF out.kind = "raise" THEN [ok |-> FALSE, detail |-> out.detail]
    ELSE LET parsed == ParseFollowUpQuestions(out.text) IN
         IF ~parsed.ok THEN [ok |-> FALSE, detail |-> parsed.detail]
         ELSE LET questions == SliceQuestions(v, parsed.questions) IN
              [ok |-> TRUE,
               state |-> [st EXCEPT
                   !.follow_up_questions =
                       [i \in 1..Len(questions) |-> questions[i].question],
                   !.current_step = "complete"]]

\* follow_up_generator(state)
follow_up_generator(v, st, out) ==
    LET t == follow_up_generator_try(v, st, out) IN
    IF t.ok THEN t.state ELSE StageError(st, "follow_up_generator", t.detail)

\* error_handler that also empties errors
error_handler_clears_errors(st) == [st EXCEPT !.current_step = "complete", !.errors = <<>>]

\* error_handler without its update of current_step
error_handler_keeps_step(st) == st

\* error_handler(state): {**state, "current_step": "complete"}
error_handler(st) == [st EXCEPT !.current_step = "complete"]

\* an edge map in which the "error" tag of search_executor leads on to
\* content_synthesiser instead of the error node
Edges_search_error_ignored(n) ==
    CASE n = "query_analyser" ->
             [search_executor |-> "search_executor", error |-> "error"]
      [] n = "search_executor" ->
             [content_synthesiser |-> "content_synthesiser",
              error |-> "content_synthesiser"]
      [] n = "content_synthesiser" ->
             [follow_up_generator |-> "follow_up_generator", error |-> "error"]
      [] n = "follow_up_generator" ->
             [complete |-> "END", error |-> "error"]
      [] n = "error" ->
             [complete |-> "END"]

----------------------------------------------------------------------------
(* build_graph: the conditional edges, keyed by the current_step a node returns *)

Edges(n) ==
    CASE n = "query_analyser" ->
             [search_executor |-> "search_executor", error |-> "error"]
      [] n = "search_executor" ->
             [content_synthesiser |-> "content_synthesiser", error |-> "error"]
      [] n = "content_synthesiser" ->
             [follow_up_generator |-> "follow_up_generator", error |-> "error"]
      [] n = "follow_up_generator" ->
             [complete |-> "END", error |-> "error"]
      [] n = "error" ->
             [complete |-> "END"]

\* g.set_entry_point("query_analyser")
EntryPoint == "query_analyser"

\* the node the engine runs after node n returned a state with current_step = step;
\* a step the edge map of n lacks is an exception of the engine
Route(n, step) ==
    IF step \in DOMAIN Edges(n) THEN Edges(n)[step] ELSE "<KeyError>"

\* the dict run_research_workflow returns
ResultOf(v, final_state) ==
    LET r == [original_query |-> final_state.user_query,
              search_queries |-> final_state.search_queries,
              research_summary |-> final_state.research_summary,
              follow_up_questions |-> final_state.follow_up_questions,
              errors |-> final_state.errors]
    IN  IF v = "main" THEN r @@ [progress |-> <<>>] ELSE r

----------------------------------------------------------------------------
(* The process *)

Questions == {"What is photosynthesis?", "Why is the sky blue?"}

\* the command lines of agents.py
Argvs ==
    {<<"agents.py">>,
     <<"agents.py", "Why", "is", "the", "sky", "blue?">>}

\* the texts the front end of main.py submits
Submissions == Questions \cup {"", "  "}

EnvKeys == {NoValue, "", "secret"}

NoState == InitialState("")
ZeroCalls == [n \in Nodes |-> 0]

Init ==
    /\ variant \in Variants
    /\ env_key \in EnvKeys
    /\ argv \in IF variant = "agents" THEN Argvs ELSE {<<"main.py">>}
    /\ pc = "import"
    /\ exit_code = NoExit
    /\ question = ""
    /\ state = NoState
    /\ node = "END"
    /\ calls = ZeroCalls
    /\ failed = <<>>
    /\ last = NoLast
    /\ result = NoResult
    /\ runs = <<>>

\* a graph execution is in progress
Running == pc \in {"stream", "invoke"}

\* module import: search_tool = SerperSearchTool(k=...) raises ValueError without a key
Import ==
    /\ pc = "import"
    /\ pc' = IF SerperInitRaises(env_key) THEN "raised"
             ELSE IF variant = "agents" THEN "main" ELSE "serving"
    /\ UNCHANGED <<runs, variant, env_key, argv, exit_code, question, state, node, calls,
                   failed, last, result>>

\* the first lines of run_research_workflow(q): initial_state, build_graph and the
\* start of the first graph execution (wf.stream in agents.py, wf.invoke in main.py)
StartRun(q) ==
    /\ question' = q
    /\ state' = InitialState(q)
    /\ node' = EntryPoint
    /\ calls' = ZeroCalls
    /\ failed' = <<>>
    /\ last' = NoLast
    /\ result' = NoResult
    /\ pc' = IF variant = "agents" THEN "stream" ELSE "invoke"

\* a __main__ block without the check of len(sys.argv): the workflow is run for the
\* empty question when no argument is given
Main_without_usage_check ==
    /\ pc = "main"
    /\ StartRun(Join(Drop(argv, 1)))
    /\ UNCHANGED <<runs, variant, env_key, argv, exit_code>>

\* agents.py, __main__ block: usage exit, or run_research_workflow(" ".join(argv[1:]))
Main ==
    /\ pc = "main"
    /\ IF Len(argv) < 2
       THEN /\ pc' = "exited"
            /\ exit_code' = 1
            /\ UNCHANGED <<question, state, node, calls, failed, last, result>>
       ELSE /\ StartRun(Join(Drop(argv, 1)))
            /\ UNCHANGED exit_code
    /\ UNCHANGED <<runs, variant, env_key, argv>>

\* main.py, process_query(query, history): a blank query returns at once
ProcessQuery ==
    /\ pc \in {"serving", "returned"}
    /\ variant = "main"
    /\ \E query \in Submissions :
          IF Strip(query) = ""
          THEN /\ pc' = "serving"
               /\ result' = NoResult
               /\ UNCHANGED <<question, state, node, calls, failed, last>>
          ELSE StartRun(query)
    /\ UNCHANGED <<runs, variant, env_key, argv, exit_code>>

\* the payloads {"q": query, "num": k} of the search_tool.invoke calls search_executor
\* makes from query i on, in the order it makes them: one per query, up to and
\* including the first call that raises
RECURSIVE SearchPayloads(_, _, _, _)
SearchPayloads(k, queries, https, i) ==
    IF i > Len(queries) THEN <<>>
    ELSE <<[q |-> queries[i], num |-> k]>>
         \o (IF ~SerperInvoke(k, https[i]).ok THEN <<>>
             ELSE SearchPayloads(k, queries, https, i + 1))

\* str(x) in an f-string: None is written "None"
Str(x) == IF x = NoValue THEN "None" ELSE x

\* a context block that is built from the first search result only
FormatSources_first(results) ==
    [i \in 1..Min(1, Len(results)) |->
        "Source " \o ToString(i) \o ": " \o Str(results[i].title)
        \o "\nURL: " \o Str(results[i].url)
        \o "\nContent: " \o Str(results[i].content) \o "\n"]

\* the context block of content_synthesiser, one entry per search result:
\* f"Source {i+1}: {r['title']}\nURL: {r['url']}\nContent: {r['content']}\n"
FormatSources(results) ==
    [i \in 1..Len(results) |->
        "Source " \o ToString(i) \o ": " \o Str(results[i].title)
        \o "\nURL: " \o Str(results[i].url)
        \o "\nContent: " \o Str(results[i].content) \o "\n"]

\* what node n sends to its collaborator when it runs on state st: the fields of the
\* prompt of a completion call, the payloads of the search calls, the errors that
\* error_handler writes out
Request(v, n, st, resp) ==
    CASE n = "query_analyser" -> [user_query |-> st.user_query]
      [] n = "search_executor" ->
             SearchPayloads(SearchK(v), st.search_queries, resp, 1)
      [] n = "content_synthesiser" ->
             [user_query |-> st.user_query, sources |-> FormatSources(st.search_results)]
      [] n = "follow_up_generator" ->
             [user_query |-> st.user_query, research_summary |-> st.research_summary]
      [] n = "error" -> st.errors

\* the engine runs node n, which returns st2 after the collaborator response resp;
\* raised says whether its except clause ran
RunNode(n, st2, resp, raised) ==
    /\ Running
    /\ node = n
    /\ calls[n] < MaxCalls
    /\ state' = st2
    /\ node' = Route(n, st2.current_step)
    /\ pc' = IF Route(n, st2.current_step) = "<KeyError>" THEN "raised" ELSE pc
    /\ calls' = [calls EXCEPT ![n] = @ + 1]
    /\ failed' = IF raised THEN Append(failed, n) ELSE failed
    /\ last' = [stage |-> n, resp |-> resp, raised |-> raised,
                request |-> Request(variant, n, state, resp)]
    /\ UNCHANGED <<runs, variant, env_key, argv, exit_code, question, result>>

QueryAnalyser ==
    /\ node = "query_analyser"
    /\ \E out \in CompletionOutcomes("query_analyser") :
            RunNode("query_analyser", query_analyser(variant, state, out), out,
                    ~query_analyser_try(variant, state, out).ok)

\* the HTTP exchanges of the first m calls for `queries`, each of them answered
RECURSIVE Answered(_, _)
Answered(queries, m) ==
    IF m = 0 THEN {<<>>}
    ELSE {h \o <<x>> : h \in Answered(queries, m - 1), x \in HttpAnswers(queries[m])}

\* the HTTP exchanges of the calls search_executor makes for `queries`: every call
\* answered, or the calls up to the first one that raises
SearchExchanges(queries) ==
    Answered(queries, Len(queries))
    \cup UNION {{h \o <<x>> : h \in Answered(queries, f - 1), x \in HttpFailures} :
                   f \in 1..Len(queries)}

SearchExecutor ==
    /\ node = "search_executor"
    /\ \E https \in SearchExchanges(state.search_queries) :
            RunNode("search_executor", search_executor(variant, state, https), https,
                    ~search_executor_try(variant, state, https).ok)

ContentSynthesiser ==
    /\ node = "content_synthesiser"
    /\ \E out \in CompletionOutcomes("content_synthesiser") :
            RunNode("content_synthesiser", content_synthesiser(variant, state, out), out,
                    ~content_synthesiser_try(variant, state, out).ok)

FollowUpGenerator ==
    /\ node = "follow_up_generator"
    /\ \E out \in CompletionOutcomes("follow_up_generator") :
            RunNode("follow_up_generator", follow_up_generator(variant, state, out), out,
                    ~follow_up_generator_try(variant, state, out).ok)

ErrorHandler ==
    RunNode("error", error_handler(state), state.errors, FALSE)

\* agents.py: wf.stream(initial_state) is exhausted and wf.invoke(initial_state)
\* starts a second execution of the graph from the same initial state
StreamDone ==
    /\ pc = "stream"
    /\ node = "END"
    /\ pc' = "invoke"
    /\ state' = InitialState(question)
    /\ node' = EntryPoint
    /\ UNCHANGED <<runs, variant, env_key, argv, exit_code, question, calls, failed, last,
                   result>>

\* wf.invoke returned final_state: run_research_workflow returns its dict
Return ==
    /\ pc = "invoke"
    /\ node = "END"
    /\ pc' = "returned"
    /\ result' = ResultOf(variant, state)
    /\ UNCHANGED <<runs, variant, env_key, argv, exit_code, question, state, node, calls,
                   failed, last>>

\* agents.py: the results are printed and the interpreter exits
Exit ==
    /\ pc = "returned"
    /\ variant = "agents"
    /\ pc' = "exited"
    /\ exit_code' = 0
    /\ UNCHANGED <<runs, variant, env_key, argv, question, state, node, calls, failed, last,
                   result>>

Next ==
    \/ Import
    \/ Main
    \/ ProcessQuery
    \/ QueryAnalyser
    \/ SearchExecutor
    \/ ContentSynthesiser
    \/ FollowUpGenerator
    \/ ErrorHandler
    \/ StreamDone
    \/ Return
    \/ Exit

Spec == Init /\ [][Next]_vars

\* the interpreter and the graph engine keep running: a step that can be taken is taken
FairSpec == Spec /\ WF_vars(Next)

----------------------------------------------------------------------------
(* Concurrent callers: run_research_workflow called by several requests of the   *)
(* front end (or threads of an importing program) at the same time.  Each call   *)
(* has its own locals initial_state, wf and final_state; LLM and search_tool are *)
(* module-level objects that no call assigns to.                                 *)

Callers == {"a", "b"}

\* the other variables: one process, module imported, no run of its own
single == <<variant, env_key, argv, pc, exit_code, question, state, node, calls,
            failed, last, result>>

\* a caller that has not called run_research_workflow yet
IdleRun ==
    [pc |-> "idle", question |-> "", state |-> NoState, node |-> "END",
     log |-> <<>>, result |-> NoResult]

\* an initial_state kept in a module-level variable: a call made while another call
\* is in progress starts from the state of that call
RunState_shared(rs, r, q) ==
    IF \E o \in DOMAIN rs \ {r} : rs[o].pc \in {"stream", "invoke"}
    THEN rs[CHOOSE o \in DOMAIN rs \ {r} : rs[o].pc \in {"stream", "invoke"}].state
    ELSE InitialState(q)

\* initial_state of the call of caller r: a dict built by the call itself
RunState(rs, r, q) == InitialState(q)

\* the collaborator outcomes of node n on state st that the concurrent callers see
ConcurrentOutcomes(n, st) ==
    CASE n = "query_analyser" ->
             {[kind |-> "raise", detail |-> e] : e \in TransportErrors}
             \cup {[kind |-> "text", text |-> QueriesDoc(2)]}
      [] n = "search_executor" ->
             {h \in SearchExchanges(st.search_queries) :
                 \A i \in 1..Len(h) : h[i].kind = "data" => "organic" \in DOMAIN h[i].data}
      [] n = "content_synthesiser" ->
             {[kind |-> "text", text |-> t] :
                 t \in {NotJson} \cup {SummaryDoc(x) : x \in Summaries \ {""}}}
      [] n = "follow_up_generator" ->
             {[kind |-> "raise", detail |-> e] : e \in TransportErrors}
             \cup {[kind |-> "text", text |-> QuestionsDoc(2)]}
      [] n = "error" -> {st.errors}

\* the state node n returns on state st after the collaborator outcome out
NodeReturn(v, n, st, out) ==
    CASE n = "query_analyser" -> query_analyser(v, st, out)
      [] n = "search_executor" -> search_executor(v, st, out)
      [] n = "content_synthesiser" -> content_synthesiser(v, st, out)
      [] n = "follow_up_generator" -> follow_up_generator(v, st, out)
      [] n = "error" -> error_handler(st)

InterleavedInit ==
    /\ variant \in Variants
    /\ env_key = "secret"
    /\ argv = <<variant \o ".py">>
    /\ pc = "serving"
    /\ exit_code = NoExit
    /\ question = ""
    /\ state = NoState
    /\ node = "END"
    /\ calls = ZeroCalls
    /\ failed = <<>>
    /\ last = NoLast
    /\ result = NoResult
    /\ runs = [r \in Callers |-> IdleRun]

\* caller r calls run_research_workflow(q)
Call(r) ==
    /\ runs[r].pc \in {"idle", "returned"}
    /\ \E q \in Questions :
          runs' = [runs EXCEPT ![r] =
                      [pc |-> IF variant = "agents" THEN "stream" ELSE "invoke",
                       question |-> q,
                       state |-> RunState(runs, r, q),
                       node |-> EntryPoint,
                       log |-> <<>>,
                       result |-> NoResult]]
    /\ UNCHANGED single

\* the engine of caller r's call runs the next node
Step(r) ==
    /\ runs[r].pc \in {"stream", "invoke"}
    /\ runs[r].node \in Nodes
    /\ \E out \in ConcurrentOutcomes(runs[r].node, runs[r].state) :
          LET st2 == NodeReturn(variant, runs[r].node, runs[r].state, out) IN
          runs' = [runs EXCEPT ![r].state = st2,
                               ![r].node = Route(runs[r].node, st2.current_step),
                               ![r].log = IF runs[r].node \in Stages
                                          THEN Append(@, out) ELSE @]
    /\ UNCHANGED single

\* agents.py: wf.stream of caller r's call is exhausted, wf.invoke(initial_state) starts
Restart(r) ==
    /\ runs[r].pc = "stream"
    /\ runs[r].node = "END"
    /\ runs' = [runs EXCEPT ![r].pc = "invoke",
                            ![r].state = RunState(runs, r, runs[r].question),
                            ![r].node = EntryPoint]
    /\ UNCHANGED single

\* caller r's call returns its dict
Finish(r) ==
    /\ runs[r].pc = "invoke"
    /\ runs[r].node = "END"
    /\ runs' = [runs EXCEPT ![r].pc = "returned",
                            ![r].result = ResultOf(variant, runs[r].state)]
    /\ UNCHANGED single

InterleavedNext ==
    \E r \in Callers :
        \/ Call(r)
        \/ Step(r)
        \/ Restart(r)
        \/ Finish(r)

InterleavedSpec == InterleavedInit /\ [][InterleavedNext]_vars

----------------------------------------------------------------------------
(* Claims *)

\* run_research_workflow has returned the result of a finished graph execution
Returned == pc = "returned" /\ node = "END"

\* the number of node invocations of the current run_research_workflow call
TotalCalls ==
    calls["query_analyser"] + calls["search_executor"] + calls["content_synthesiser"]
    + calls["follow_up_generator"] + calls["error"]

\* C1: every run of run_research_workflow, whatever the completion and search
\* collaborators answer (success, transport failure, malformed output), returns with
\* current_step = "complete", and it does so after a bounded number of stage
\* executions (at most five per execution of the graph, two executions at most).
C1_Terminates ==
    /\ Running ~> (Returned /\ state.current_step = "complete")
    /\ [](TotalCalls <= 10)

\* a run that met a failure has returned at "complete"
C1_Witness ==
    /\ Returned
    /\ state.current_step = "complete"
    /\ Len(state.errors) > 0

\* C2: within one call of run_research_workflow every node of the graph (the four
\* stages and error_handler), and so every collaborator call, is executed at most once.
C2_ExecutedOnce == \A n \in Nodes : calls[n] <= 1

\* string s starts with string p
StartsWith(s, p) == Len(s) >= Len(p) /\ SubSeq(s, 1, Len(p)) = p

\* sequence s is a prefix of sequence t
IsPrefix(s, t) == Len(s) <= Len(t) /\ SubSeq(t, 1, Len(s)) = s

\* the collaborator call of `stage` failed in transport, or the completion text it
\* returned does not parse against the stage's schema
CollaboratorFailure(stage, resp) ==
    CASE stage = "query_analyser" ->
             resp.kind = "raise" \/ ~ParseSearchQueries(resp.text).ok
      [] stage = "search_executor" ->
             \E i \in 1..Len(resp) : resp[i].kind = "raise"
      [] stage = "content_synthesiser" ->
             resp.kind = "raise" \/ ~ParseResearchSummary(resp.text).ok
      [] stage = "follow_up_generator" ->
             resp.kind = "raise" \/ ~ParseFollowUpQuestions(resp.text).ok

\* the step is the execution of a stage
StageStep == Running /\ node \in Stages /\ calls'[node] = calls[node] + 1

\* C3: when the collaborator call of a stage fails in transport or the completion
\* text fails to parse, the stage appends one string starting with "<stage>: " to
\* errors, sets current_step to "error" and the engine goes on to error_handler; no
\* exception leaves a run (an exception is raised at module import only).
C3_FailureCaptured ==
    [][/\ (StageStep /\ CollaboratorFailure(node, last'.resp)) =>
              /\ Len(state'.errors) = Len(state.errors) + 1
              /\ IsPrefix(state.errors, state'.errors)
              /\ StartsWith(state'.errors[Len(state'.errors)], node \o ": ")
              /\ state'.current_step = "error"
              /\ node' = "error"
              /\ pc' = pc
       /\ pc' = "raised" => pc = "import"]_vars

\* content_synthesiser received a malformed completion text and the failure is recorded
C3_Witness ==
    /\ last.stage = "content_synthesiser"
    /\ last.resp.kind = "text"
    /\ ~ParseResearchSummary(last.resp.text).ok
    /\ state.current_step = "error"
    /\ node = "error"
    /\ StartsWith(state.errors[1], "content_synthesiser: ")

\* the tag that follows tag `step` on the success path, and after error_handler
Successor(step) ==
    CASE step = "query_analyser" -> "search_executor"
      [] step = "search_executor" -> "content_synthesiser"
      [] step = "content_synthesiser" -> "follow_up_generator"
      [] step = "follow_up_generator" -> "complete"
      [] step = "error" -> "complete"
      [] OTHER -> "<none>"

\* C4: during a run of run_research_workflow every change of current_step goes to the
\* immediate successor tag or, from a stage, to "error"; no stage is executed again.
C4_StraightLine ==
    [][Running =>
          /\ state'.current_step # state.current_step =>
                 \/ state'.current_step = Successor(state.current_step)
                 \/ state.current_step \in Stages /\ state'.current_step = "error"
          /\ \A n \in Nodes : calls'[n] <= 1]_vars

\* stage s failed within the current run_research_workflow call
Failed(s) == \E i \in 1..Len(failed) : failed[i] = s

\* C5: if a stage fails, no field owned by a later stage is populated in that run: a
\* failure of query_analyser implies search_results = [], research_summary = "" and
\* follow_up_questions = []; a failure of search_executor implies research_summary = ""
\* and follow_up_questions = []; a failure of content_synthesiser implies
\* follow_up_questions = [].
C5_NothingDownstream ==
    /\ Failed("query_analyser") =>
           /\ state.search_results = <<>>
           /\ state.research_summary = ""
           /\ state.follow_up_questions = <<>>
    /\ Failed("search_executor") =>
           /\ state.research_summary = ""
           /\ state.follow_up_questions = <<>>
    /\ Failed("content_synthesiser") => state.follow_up_questions = <<>>

\* C6: from current_step = "error" the only next tag is "complete", reached by
\* error_handler, which leaves errors and every other field of the state as they were.
C6_ErrorHandlerFrame ==
    [][(Running /\ state.current_step = "error") =>
          /\ node = "error"
          /\ state' # state =>
                 /\ state' = [state EXCEPT !.current_step = "complete"]
                 /\ last'.stage = "error"
                 /\ node' = "END"]_vars

\* error_handler has run on a state that holds an error
C6_Witness ==
    /\ last.stage = "error"
    /\ state.current_step = "complete"
    /\ Len(state.errors) = 1
    /\ state.search_queries # <<>>

\* every entry of errors starts with the name of a stage followed by ": "
ErrorsTagged ==
    \A i \in 1..Len(state.errors) :
        \E s \in Stages : StartsWith(state.errors[i], s \o ": ")

\* C7: errors is append-only across every transition of a run (the errors of a state
\* extend those of the state before it), and every entry starts with the name of the
\* stage that produced it followed by ": ".
C7_ErrorsAppendOnly ==
    /\ [][Running => IsPrefix(state.errors, state'.errors)]_vars
    /\ []ErrorsTagged

\* the number N of queries the prompt of query_analyser asks for: exactly 3 in
\* main.py, at most 5 in agents.py
NumQueries(v) == IF v = "main" THEN QueryLimit ELSE PromptMaxQueries

\* the number M of questions the prompt of follow_up_generator asks for: exactly 2 in
\* main.py, at most 3 in agents.py
NumFollowUps(v) == IF v = "main" THEN FollowUpLimit ELSE PromptMaxFollowUps

\* query_analyser ran last and its completion text parsed
QueriesParsed ==
    /\ last.stage = "query_analyser"
    /\ last.resp.kind = "text"
    /\ ParseSearchQueries(last.resp.text).ok

\* the query strings of the parsed response query_analyser received
ResponseQueries ==
    LET qs == ParseSearchQueries(last.resp.text).queries
    IN  [i \in 1..Len(qs) |-> qs[i].query]

\* C8: given a well-formed response with at least N queries, query_analyser yields
\* exactly the first N of them, in order; search_queries never holds more than N.
C8_ExactlyN ==
    /\ Len(state.search_queries) <= NumQueries(variant)
    /\ (QueriesParsed /\ Len(ResponseQueries) >= NumQueries(variant)) =>
           state.search_queries = Take(ResponseQueries, NumQueries(variant))

\* C9 as claimed: a response that parses but carries fewer than N queries (zero
\* included) makes query_analyser fail: a "query_analyser: ..." entry in errors,
\* search_queries empty, and on to error_handler.
C9_FailsOnFewer ==
    (QueriesParsed /\ Len(ResponseQueries) < NumQueries(variant)) =>
        /\ state.current_step = "error"
        /\ node = "error"
        /\ state.search_queries = <<>>
        /\ Len(state.errors) = 1
        /\ StartsWith(state.errors[1], "query_analyser: ")

\* C9 as amended: a response that parses but carries fewer than N queries (zero
\* included) does not make query_analyser fail: nothing is appended to errors,
\* search_queries holds all the queries of the response, in order, and the engine goes
\* on to search_executor.
C9_AcceptsFewer ==
    (QueriesParsed /\ Len(ResponseQueries) < NumQueries(variant)) =>
        /\ state.current_step = "search_executor"
        /\ node = "search_executor"
        /\ state.search_queries = ResponseQueries
        /\ state.errors = <<>>

\* query_analyser accepted a well-formed response without any query
C9_Witness ==
    /\ QueriesParsed
    /\ ResponseQueries = <<>>
    /\ node = "search_executor"
    /\ state.search_queries = <<>>

\* the question strings of the parsed response follow_up_generator received
ResponseQuestions ==
    LET qs == ParseFollowUpQuestions(last.resp.text).questions
    IN  [i \in 1..Len(qs) |-> qs[i].question]

\* C10: follow_up_generator keeps the first M questions of the response, so
\* follow_up_questions never holds more than M; on success it advances to "complete",
\* on a failure it leaves follow_up_questions empty and advances to "error".
C10_FollowUps ==
    /\ Len(state.follow_up_questions) <= NumFollowUps(variant)
    /\ last.stage = "follow_up_generator" =>
           IF CollaboratorFailure("follow_up_generator", last.resp)
           THEN /\ state.follow_up_questions = <<>>
                /\ state.current_step = "error"
           ELSE /\ state.follow_up_questions =
                       Take(ResponseQuestions, NumFollowUps(variant))
                /\ state.current_step = "complete"

----------------------------------------------------------------------------
\* the result list that the i-th call of the last search_executor returned
CallResults(i) == SerperInvoke(SearchK(variant), last.resp[i]).results

\* the number of results returned by the calls before the i-th
RECURSIVE Offset(_)
Offset(i) == IF i <= 1 THEN 0 ELSE Offset(i - 1) + Len(CallResults(i - 1))

SearchSucceeded == last.stage = "search_executor" /\ ~last.raised

\* C11: after a SearchExecution that succeeds, search_results is the concatenation of
\* the per-query result lists in the order of search_queries, each list in the order
\* SearchService returned it, and SearchService was called exactly once per query, in
\* that order, with that query.
C11_QueryMajor ==
    SearchSucceeded =>
        LET n == Len(state.search_queries) IN
        /\ Len(last.request) = n
        /\ Len(last.resp) = n
        /\ \A i \in 1..n : last.request[i].q = state.search_queries[i]
        /\ Len(state.search_results) = Offset(n + 1)
        /\ \A i \in 1..n : \A j \in 1..Len(CallResults(i)) :
               state.search_results[Offset(i) + j] = CallResults(i)[j]

\* a search over several queries of which the first two both returned results
C11_Witness ==
    /\ SearchSucceeded
    /\ Len(state.search_queries) >= 2
    /\ Len(CallResults(1)) >= 2
    /\ Len(CallResults(2)) >= 2
    /\ state.search_results[1] # state.search_results[Offset(2) + 1]

----------------------------------------------------------------------------
SearchFailed == last.stage = "search_executor" /\ last.raised

\* the message of the exception the last search call raised
SearchFailure == last.resp[Len(last.resp)].detail

\* C12: SearchExecution is all-or-nothing: when the SearchService call fails for any
\* query, the state the stage returns has search_results empty (nothing of the
\* earlier queries is kept), errors = ["search_executor: <message>"],
\* research_summary = "" and follow_up_questions = [].
C12_AllOrNothing ==
    SearchFailed =>
        /\ last.resp[Len(last.resp)].kind = "raise"
        /\ state.search_results = <<>>
        /\ state.errors = <<"search_executor: " \o SearchFailure>>
        /\ state.research_summary = ""
        /\ state.follow_up_questions = <<>>
        /\ state.current_step = "error"

\* the call for the second query raises after the first query returned results
C12_Witness ==
    /\ SearchFailed
    /\ Len(last.resp) = 2
    /\ Len(state.search_queries) >= 2
    /\ Len(CallResults(1)) >= 1
    /\ state.search_results = <<>>

----------------------------------------------------------------------------
\* the fields of a state that the stages populate
Populated(st) ==
    [search_queries |-> st.search_queries,
     search_results |-> st.search_results,
     research_summary |-> st.research_summary,
     follow_up_questions |-> st.follow_up_questions]

\* C13: a failing stage changes only errors and current_step, error_handler keeps what
\* the stages populated, and the result returned by run_research_workflow after a
\* failure holds search_queries, research_summary and follow_up_questions as they
\* were before the failure together with the full errors list: one entry for each
\* stage failure of the run, in the order of the failures.
C13_FailureKeepsFields ==
    [][/\ (StageStep /\ last'.raised) =>
              /\ Populated(state') = Populated(state)
              /\ state'.user_query = state.user_query
       /\ (Running /\ node = "error" /\ calls'["error"] = calls["error"] + 1) =>
              /\ Populated(state') = Populated(state)
              /\ state'.errors = state.errors
       /\ (pc = "invoke" /\ pc' = "returned" /\ failed # <<>>) =>
              /\ result'.search_queries = state.search_queries
              /\ result'.research_summary = state.research_summary
              /\ result'.follow_up_questions = state.follow_up_questions
              /\ result'.errors = state.errors
              /\ Len(result'.errors) = Len(failed)
              /\ \A i \in 1..Len(failed) :
                     StartsWith(result'.errors[i], failed[i] \o ": ")]_vars

----------------------------------------------------------------------------
\* C14: user_query is set when the initial state is created and no stage changes it:
\* in every state of a run it equals the question passed to run_research_workflow,
\* and so does original_query in the returned result.
C14_UserQueryFixed ==
    /\ (Running \/ pc = "returned") => state.user_query = question
    /\ pc = "returned" => result.original_query = question

\* a run that returned after one of its stages failed and another one succeeded
C14_Witness ==
    /\ pc = "returned"
    /\ failed # <<>>
    /\ state.search_queries # <<>>
    /\ result.original_query = question
    /\ question \in Questions

----------------------------------------------------------------------------
\* a stage runs and its collaborator call and parse succeed, in a run without failure
HappyStep(n) == StageStep /\ node = n /\ failed' = <<>>

\* seq holds the first elements of resp, all of them when resp has at most limit
TakenFrom(seq, resp, limit) ==
    /\ IsPrefix(seq, resp)
    /\ Len(seq) >= Min(Len(resp), limit)

\* C15: happy path. When every completion call returns a well-formed response and
\* every search call succeeds, search_queries and follow_up_questions are taken from
\* the respective responses, content_synthesiser puts every search result in its
\* prompt, research_summary is exactly the summary string of the synthesis response,
\* no stage touches a field of another stage, and the run ends at "complete" with
\* errors = [] and these fields in the result.
C15_HappyPath ==
    [][/\ HappyStep("query_analyser") =>
              /\ TakenFrom(state'.search_queries, ResponseQueries', QueryLimit)
              /\ state' = [state EXCEPT !.search_queries = state'.search_queries,
                                        !.current_step = "search_executor"]
       /\ HappyStep("search_executor") =>
              /\ Len(last'.request) = Len(state.search_queries)
              /\ state' = [state EXCEPT !.search_results = state'.search_results,
                                        !.current_step = "content_synthesiser"]
       /\ HappyStep("content_synthesiser") =>
              /\ Len(last'.request.sources) = Len(state.search_results)
              /\ \A i \in 1..Len(state.search_results) :
                     StartsWith(last'.request.sources[i],
                                "Source " \o ToString(i) \o ": "
                                \o Str(state.search_results[i].title) \o "\nURL: "
                                \o Str(state.search_results[i].url))
              /\ state' = [state EXCEPT !.research_summary = last'.resp.text.summary,
                                        !.current_step = "follow_up_generator"]
       /\ HappyStep("follow_up_generator") =>
              /\ TakenFrom(state'.follow_up_questions, ResponseQuestions', FollowUpLimit)
              /\ state' = [state EXCEPT
                               !.follow_up_questions = state'.follow_up_questions,
                               !.current_step = "complete"]
              /\ node' = "END"
       /\ (pc = "invoke" /\ pc' = "returned" /\ failed = <<>>) =>
              /\ state.current_step = "complete"
              /\ state.errors = <<>>
              /\ result'.errors = <<>>
              /\ result'.search_queries = state.search_queries
              /\ result'.research_summary = state.research_summary
              /\ result'.follow_up_questions = state.follow_up_questions
              /\ calls["error"] = 0]_vars

\* a run without failure returned a summary, several queries and follow-up questions
\* after content_synthesiser was given the results of several queries
C15_Witness ==
    /\ pc = "returned"
    /\ failed = <<>>
    /\ result.errors = <<>>
    /\ Len(result.search_queries) >= 3
    /\ Len(state.search_results) >= 4
    /\ result.research_summary # ""
    /\ Len(result.follow_up_questions) >= 2

----------------------------------------------------------------------------
\* SERPER_API_KEY is unset or empty
NoCredential == env_key = NoValue \/ env_key = ""

\* no run has started: no state was created, no node ran, nothing was returned
NoRun ==
    /\ state = NoState
    /\ question = ""
    /\ node = "END"
    /\ calls = ZeroCalls
    /\ failed = <<>>
    /\ last = NoLast
    /\ result = NoResult

\* C16: without a credential (SERPER_API_KEY unset or empty) the construction of the
\* SearchService raises at once: the process never gets past the import, no run
\* starts, no ResearchState is created, no stage executes, and the failure is in no
\* errors list.
C16_FailFast ==
    NoCredential =>
        /\ pc \in {"import", "raised"}
        /\ NoRun
        /\ state.errors = <<>>
        /\ exit_code = NoExit

\* the import raised because SERPER_API_KEY is set to the empty string
C16_Witness == pc = "raised" /\ env_key = "" /\ NoRun

----------------------------------------------------------------------------
\* C17: command line of agents.py. Without a question argument the process exits
\* with a non-zero status before any stage runs: no ResearchState is created and no
\* collaborator is called. With arguments, the workflow is run for the question text,
\* the arguments joined by single spaces, and the process exits with status 0 after
\* the result is returned.
C17_CommandLine ==
    variant = "agents" =>
        /\ Len(argv) < 2 =>
               /\ pc \in {"import", "raised", "main", "exited"}
               /\ NoRun
               /\ pc = "exited" => exit_code > 0
        /\ (Len(argv) >= 2 /\ pc \in {"stream", "invoke", "returned", "exited"}) =>
               /\ question = Join(Drop(argv, 1))
               /\ argv = <<"agents.py", "Why", "is", "the", "sky", "blue?">> =>
                      question = "Why is the sky blue?"
               /\ state.user_query = question
               /\ pc = "exited" => (exit_code = 0 /\ result.original_query = question)

\* the usage exit: a credential is set, no argument is given
C17_Witness ==
    /\ variant = "agents"
    /\ Len(argv) < 2
    /\ pc = "exited"
    /\ exit_code = 1
    /\ NoRun

----------------------------------------------------------------------------
InProgress(r) == runs[r].pc \in {"stream", "invoke"}

\* C18: each call of run_research_workflow starts from a fresh state with every
\* sequence and string field empty and current_step = "query_analyser"; when the
\* calls of two callers are interleaved, a transition of one call leaves the other
\* call as it is, and the result of a call depends only on its own question and its
\* own collaborator responses: two calls with the same question and the same
\* responses return the same result.
C18_RunsIsolated ==
    [][/\ \A r \in DOMAIN runs :
              (~InProgress(r) /\ InProgress(r)') =>
                  runs'[r].state = [user_query |-> runs'[r].question,
                                    search_queries |-> <<>>,
                                    search_results |-> <<>>,
                                    research_summary |-> "",
                                    follow_up_questions |-> <<>>,
                                    current_step |-> "query_analyser",
                                    errors |-> <<>>]
       /\ \A r \in DOMAIN runs :
              runs'[r] # runs[r] => \A o \in DOMAIN runs \ {r} : runs'[o] = runs[o]
       /\ \A r \in DOMAIN runs :
              runs'[r].pc = "returned" =>
                  /\ runs'[r].result.original_query = runs'[r].question
                  /\ \A o \in DOMAIN runs \ {r} :
                         (/\ runs'[o].pc = "returned"
                          /\ runs'[o].question = runs'[r].question
                          /\ runs'[o].log = runs'[r].log)
                             => runs'[o].result = runs'[r].result]_vars

\* one call has returned without errors while the call of the other caller, for
\* another question, is in progress and has a failure recorded
C18_Witness ==
    /\ DOMAIN runs = Callers
    /\ runs["a"].pc = "returned"
    /\ runs["a"].result.errors = <<>>
    /\ runs["a"].result.research_summary # ""
    /\ InProgress("b")
    /\ runs["b"].question # runs["a"].question
    /\ runs["b"].state.errors # <<>>
    /\ runs["b"].state.search_queries # <<>>

----------------------------------------------------------------------------
\* C19: search_executor is only ever executed with a non-empty search_queries: in
\* every state with current_step = "search_executor" the list has at least one
\* element; a response that parses to an empty query list does not lead there.
C19_NonEmptyQueries ==
    (Running /\ state.current_step = "search_executor") => Len(state.search_queries) >= 1

\* C19, amended: search_executor is executed right after a query_analyser that
\* parsed its response, with the queries of that response, also when there are
\* none; on an empty search_queries it calls the search service not at all, cannot
\* fail, leaves search_results empty and advances to content_synthesiser.
C19_EmptyQueriesSearched ==
    [][/\ (Running /\ state.current_step = "search_executor") =>
              /\ node = "search_executor"
              /\ QueriesParsed
              /\ TakenFrom(state.search_queries, ResponseQueries, QueryLimit)
       /\ (StageStep /\ node = "search_executor" /\ state.search_queries = <<>>) =>
              /\ last'.request = <<>>
              /\ ~last'.raised
              /\ state' = [state EXCEPT !.current_step = "content_synthesiser"]
              /\ node' = "content_synthesiser"]_vars

\* search_executor has run on an empty list of queries
C19_Witness ==
    /\ last.stage = "search_executor"
    /\ state.search_queries = <<>>
    /\ state.current_step = "content_synthesiser"

----------------------------------------------------------------------------
\* C20: content_synthesiser is only ever executed with a non-empty search_results: in
\* every state with current_step = "content_synthesiser" the list has at least one
\* element, also when every search call succeeded and returned zero results.
C20_NonEmptyResults ==
    (Running /\ state.current_step = "content_synthesiser") =>
        Len(state.search_results) >= 1

\* C20, amended: content_synthesiser is executed after every search_executor whose
\* calls all succeeded, also when they returned no result at all (or no call was
\* made); on an empty search_results it sends a prompt without any source block and
\* goes on as with any other input: the summary of a well-formed response is
\* stored, a transport or parse failure is recorded.
C20_EmptyResultsSynthesised ==
    [][/\ (Running /\ state.current_step = "content_synthesiser") =>
              /\ node = "content_synthesiser"
              /\ SearchSucceeded
              /\ Len(state.search_results) = Offset(Len(state.search_queries) + 1)
       /\ (StageStep /\ node = "search_executor"
              /\ ~CollaboratorFailure(node, last'.resp)) =>
              /\ ~last'.raised
              /\ state'.current_step = "content_synthesiser"
              /\ node' = "content_synthesiser"
       /\ (StageStep /\ node = "content_synthesiser" /\ state.search_results = <<>>) =>
              /\ last'.request.sources = <<>>
              /\ last'.raised = CollaboratorFailure(node, last'.resp)
              /\ ~last'.raised =>
                     state' = [state EXCEPT
                                  !.research_summary = last'.resp.text.summary,
                                  !.current_step = "follow_up_generator"]
              /\ last'.raised =>
                     /\ Populated(state') = Populated(state)
                     /\ state'.current_step = "error"]_vars

\* a summary was stored although the searches for several queries returned nothing
C20_Witness ==
    /\ last.stage = "content_synthesiser"
    /\ ~last.raised
    /\ Len(state.search_queries) >= 2
    /\ state.search_results = <<>>
    /\ state.research_summary # ""

----------------------------------------------------------------------------
\* C21: error_handler is only entered after a failure: in every state with
\* current_step = "error" the list errors is non-empty, its last entry is the one
\* of the stage that has just failed, and error_handler is the node that runs next;
\* conversely, when "complete" is reached without error_handler having run, errors
\* is empty, in the state and in the returned result.
C21_ErrorHandlerAfterFailure ==
    /\ (Running /\ state.current_step = "error") =>
           /\ state.errors # <<>>
           /\ node = "error"
           /\ last.stage \in Stages
           /\ last.raised
           /\ StartsWith(state.errors[Len(state.errors)], last.stage \o ": ")
    /\ (Running /\ node = "error") => state.current_step = "error"
    /\ (Running /\ state.current_step = "complete" /\ last.stage # "error") =>
           state.errors = <<>>
    /\ (Running /\ state.current_step = "complete" /\ calls["error"] = 0) =>
           state.errors = <<>>
    /\ (Returned /\ calls["error"] = 0) => result.errors = <<>>

\* error_handler is about to run after content_synthesiser failed
C21_Witness ==
    /\ Running
    /\ state.current_step = "error"
    /\ node = "error"
    /\ last.stage = "content_synthesiser"
    /\ state.errors # <<>>

----------------------------------------------------------------------------
\* the graph execution in progress has reached "complete"
AtComplete == Running /\ state.current_step = "complete"

\* C22: the state of one graph execution never holds more than one error; when the
\* execution is at "complete", errors is empty exactly when follow_up_generator has
\* just succeeded, and otherwise error_handler has just run and errors has exactly
\* one entry, which names the one stage that failed in this execution.
C22_AtMostOneError ==
    /\ Len(state.errors) <= 1
    /\ AtComplete =>
           /\ node = "END"
           /\ (state.errors = <<>>) <=> (last.stage = "follow_up_generator" /\ ~last.raised)
           /\ state.errors # <<>> =>
                  /\ last.stage = "error"
                  /\ Len(state.errors) = 1
                  /\ failed # <<>>
                  /\ state.errors[1] \in
                         {ErrorEntry(failed[Len(failed)], e) :
                             e \in TransportErrors
                                   \cup {h.detail : h \in HttpFailures}
                                   \cup {ParseError(x).detail :
                                            x \in {"SearchQueries", "ResearchSummary",
                                                   "FollowUpQuestions"}}}
                  /\ \A s \in Stages \ {failed[Len(failed)]} :
                         ~StartsWith(state.errors[1], s \o ": ")

\* an execution at "complete" with the one entry of its failed follow_up_generator,
\* the three stages before it having succeeded
C22_Witness ==
    /\ AtComplete
    /\ Len(state.errors) = 1
    /\ StartsWith(state.errors[1], "follow_up_generator: ")
    /\ state.research_summary # ""
    /\ state.search_results # <<>>

----------------------------------------------------------------------------
\* the position of the first search call of the last search_executor that raised
FirstFailure ==
    CHOOSE f \in 1..Len(last.resp) :
        /\ last.resp[f].kind = "raise"
        /\ \A j \in 1..(f - 1) : last.resp[j].kind = "data"

\* the graph execution in progress holds the error of its search_executor
SearchFailedInExecution ==
    /\ Running
    /\ state.errors # <<>>
    /\ StartsWith(state.errors[1], "search_executor: ")

\* C23: within search_executor the search calls are issued one after the other in
\* the order of search_queries, each after the one before it was answered; the
\* first call that fails is the last call of the stage, so the queries after it are
\* never searched, and from then on the graph execution runs no stage, hence makes
\* no search call and no completion call: only error_handler runs before it ends.
C23_SearchSequential ==
    [][/\ last.stage = "search_executor" =>
              /\ Len(last.request) = Len(last.resp)
              /\ Len(last.request) <= Len(state.search_queries)
              /\ \A i \in 1..Len(last.request) :
                     /\ last.request[i].q = state.search_queries[i]
                     /\ i < Len(last.request) => last.resp[i].kind = "data"
              /\ last.raised <=> (\E i \in 1..Len(last.resp) : last.resp[i].kind = "raise")
              /\ last.raised => Len(last.request) = FirstFailure
              /\ ~last.raised => Len(last.request) = Len(state.search_queries)
       /\ SearchFailedInExecution =>
              /\ node \in {"error", "END"}
              /\ \A s \in Stages : calls'[s] = calls[s]]_vars

\* the call for the second of at least three queries failed: two calls were made
\* and error_handler is the next node
C23_Witness ==
    /\ SearchFailed
    /\ Len(state.search_queries) >= 3
    /\ Len(last.request) = 2
    /\ last.request[2].q = state.search_queries[2]
    /\ node = "error"

====
